---- MODULE Spec2Model ----
(***************************************************************************)
(* RealEstateOps MCP server (src/src/server.ts): the two tool handlers     *)
(* notion.upsert and notion.hub_summary_projects, run against a model of   *)
(* the external document store they call.  Every awaited store call is one *)
(* atomic step; the synchronous code between two awaits belongs to the     *)
(* step of the call that precedes it.                                      *)
(***************************************************************************)
EXTENDS Integers, Sequences, FiniteSets, TLC

VARIABLES records, blocks, clock, nextId, inv, hist, budget, load, slots, faults

vars == <<records, blocks, clock, nextId, inv, hist, budget, load, slots, faults>>

----------------------------------------------------------------------------
(* Bounds of the model *)

\* handler invocations in one run
MaxInv == 2
\* store calls that fail in one run
MaxFaults == 1
\* records inside / outside the look-back window in the large store
BigInside == 30
BigOutside == 5

(* Program constants *)

\* page_size of the hub children listing
PageSize == 100
\* q.results.slice(0, 25)
BulletCap == 25
\* 864e5 milliseconds per day
DayMs == 86400000
\* sinceDays default
DefaultSinceDays == 14

----------------------------------------------------------------------------
(* Text: a string is a sequence of one-character strings *)

Marker == <<"A","U","T","O"," ","·"," ","R","e","s","u","m","e","n">>

DigitChars == <<"0","1","2","3","4","5","6","7","8","9">>

RECURSIVE Decimal(_)
\* String(n) / template interpolation of a non-negative integer
Decimal(n) ==
    IF n < 10 THEN <<DigitChars[n + 1]>>
    ELSE Decimal(n \div 10) \o <<DigitChars[(n % 10) + 1]>>

\* the characters the regular expression class \s matches (those the inputs use)
IsWhite(c) == c \in {" ", "\t", "\n"}

AllNonWhite(s, a, b) == \A k \in a..b : ~IsWhite(s[k])

\* /\S+@\S+/.test(s): some run \S+ , then "@", then some run \S+
RegexEmailTest(s) ==
    \E i \in 1..Len(s) : \E j \in i..Len(s) : \E k \in (j + 2)..Len(s) :
        /\ AllNonWhite(s, i, j)
        /\ j + 1 <= Len(s) /\ s[j + 1] = "@"
        /\ AllNonWhite(s, j + 2, k)

\* text.includes(sub)
Includes(s, sub) ==
    \E k \in 0..(Len(s) - Len(sub)) : SubSeq(s, k + 1, k + Len(sub)) = sub

----------------------------------------------------------------------------
(* JavaScript values reaching the handlers *)

JSNum(n) == [type |-> "number", num |-> n, str |-> <<>>]
JSStr(s) == [type |-> "string", num |-> 0, str |-> s]
JSBool(b) == [type |-> "boolean", num |-> IF b THEN 1 ELSE 0, str |-> <<>>]
JSUndef == [type |-> "undefined", num |-> 0, str |-> <<>>]

TypeOf(v) == v.type

\* String(v)
JSString(v) ==
    CASE v.type = "number" -> Decimal(v.num)
      [] v.type = "boolean" -> IF v.num = 1 THEN <<"t","r","u","e">>
                               ELSE <<"f","a","l","s","e">>
      [] v.type = "undefined" -> <<"u","n","d","e","f","i","n","e","d">>
      [] OTHER -> v.str

----------------------------------------------------------------------------
(* Collection registry: DBS = JSON.parse(dbs.json), a plain object *)

DBS == ("seguimientos" :> "db-seg") @@ ("proyectos" :> "db-pro")

\* members every plain object inherits from Object.prototype
ObjectPrototypeKeys ==
    {"constructor", "toString", "valueOf", "hasOwnProperty", "__proto__"}

Undefined == "<undefined>"
Inherited(k) == "<Object.prototype member>"

\* DBS[db]: own property, else inherited member, else undefined
DBSGet(db) ==
    IF db \in DOMAIN DBS THEN DBS[db]
    ELSE IF db \in ObjectPrototypeKeys THEN Inherited(db)
    ELSE Undefined

\* !database_id
Falsy(v) == v = Undefined \/ v = ""

\* the collections the store holds
StoreDatabases == {DBS[k] : k \in DOMAIN DBS}

----------------------------------------------------------------------------
(* Records (pages) and their properties *)

PropNames == {"Clave", "Name", "Título"}

NoVal == [kind |-> "none", val |-> JSUndef, title |-> <<>>]
EmailVal(s) == [kind |-> "email", val |-> JSStr(s), title |-> <<>>]
TextVal(s) == [kind |-> "rich_text", val |-> JSStr(s), title |-> <<>>]
NumVal(n) == [kind |-> "number", val |-> JSNum(n), title |-> <<>>]
\* a title property: the plain_text of each rich-text segment
TitleVal(segs) == [kind |-> "title", val |-> JSUndef, title |-> segs]

NoProps == [n \in PropNames |-> NoVal]

Page(id, db, props, edited, archived) ==
    [id |-> id, object |-> "page", parent |-> db, props |-> props,
     edited |-> edited, archived |-> archived]

\* the properties a create / update call writes over the old ones
WriteProps(old, properties) ==
    [n \in PropNames |-> IF n \in DOMAIN properties THEN properties[n] ELSE old[n]]

----------------------------------------------------------------------------
(* notion.upsert: unique-match filter *)

\* variant: the e-mail test is String(uniqueValue).includes('@')
BuildFilterAnyAt(uniqueProp, uniqueValue) ==
    IF Includes(JSString(uniqueValue), <<"@">>)
    THEN [property |-> uniqueProp, kind |-> "email",
          equals |-> JSStr(JSString(uniqueValue))]
    ELSE IF TypeOf(uniqueValue) = "number"
    THEN [property |-> uniqueProp, kind |-> "number", equals |-> uniqueValue]
    ELSE [property |-> uniqueProp, kind |-> "rich_text",
          equals |-> JSStr(JSString(uniqueValue))]

BuildFilter(uniqueProp, uniqueValue) ==
    LET f0 == [property |-> uniqueProp, kind |-> "rich_text",
               equals |-> JSStr(JSString(uniqueValue))]
        f1 == IF TypeOf(uniqueValue) = "number"
              THEN [property |-> uniqueProp, kind |-> "number", equals |-> uniqueValue]
              ELSE f0
    IN IF RegexEmailTest(JSString(uniqueValue))
       THEN [property |-> uniqueProp, kind |-> "email",
             equals |-> JSStr(JSString(uniqueValue))]
       ELSE f1

\* the store's evaluation of a property filter on one page
FilterMatches(page, filter) ==
    /\ filter.property \in PropNames
    /\ page.props[filter.property].kind = filter.kind
    /\ page.props[filter.property].val = filter.equals

LivePageOf(page, db) == page.parent = db /\ ~page.archived

\* databases.query({database_id, filter}): live pages of the collection that
\* match, in the store's (creation) order
QueryUnique(recs, database_id, filter) ==
    LET Hit(page) == LivePageOf(page, database_id) /\ FilterMatches(page, filter)
    IN SelectSeq(recs, Hit)

\* the page with the latest last_edited_time (the first such in store order)
NewestIndex(s) ==
    CHOOSE m \in 1..Len(s) :
        /\ \A k \in 1..Len(s) : s[k].edited <= s[m].edited
        /\ \A k \in 1..(m - 1) : s[k].edited < s[m].edited

RemoveAt(s, m) == SubSeq(s, 1, m - 1) \o SubSeq(s, m + 1, Len(s))

RECURSIVE SortEditedDesc(_)
\* sorts: [{timestamp: 'last_edited_time', direction: 'descending'}]
SortEditedDesc(s) ==
    IF s = <<>> THEN <<>>
    ELSE LET m == NewestIndex(s)
         IN <<s[m]>> \o SortEditedDesc(RemoveAt(s, m))

\* last_edited_time on_or_after cutoff
EditedSince(page, cutoff) == page.edited >= cutoff

\* variant: the query omits its sorts
QueryRecentUnsorted(recs, database_id, cutoff) ==
    LET Hit(page) == LivePageOf(page, database_id) /\ EditedSince(page, cutoff)
    IN SelectSeq(recs, Hit)

\* databases.query({database_id, filter: last_edited_time, sorts})
QueryRecent(recs, database_id, cutoff) ==
    LET Hit(page) == LivePageOf(page, database_id) /\ EditedSince(page, cutoff)
    IN SortEditedDesc(SelectSeq(recs, Hit))

----------------------------------------------------------------------------
(* Hub page children (blocks) *)

\* hasType = FALSE is a PartialBlockObjectResponse (object and id only)
Block(id, hasType, type, text, archived) ==
    [id |-> id, hasType |-> hasType, type |-> type, text |-> text,
     archived |-> archived, kids |-> <<>>]

Paragraph(id) == Block(id, TRUE, "paragraph", <<"x">>, FALSE)
Callout(id, text) == Block(id, TRUE, "callout", text, FALSE)

\* `AUTO · Resumen (últimos ${sinceDays} días)`
Title(sinceDays) ==
    Marker \o <<" ","(","ú","l","t","i","m","o","s"," ">> \o Decimal(sinceDays)
           \o <<" ","d","í","a","s",")">>

IsLive(b) == ~b.archived

Min(a, b) == IF a <= b THEN a ELSE b

\* variant: the listing follows next_cursor to the last page
ListChildrenAll(blks) ==
    [results |-> SelectSeq(blks, IsLive), has_more |-> FALSE]

\* blocks.children.list({block_id: HUB_PAGE, page_size: 100}): first page of
\* the live children
ListChildren(blks) ==
    LET live == SelectSeq(blks, IsLive)
    IN [results |-> SubSeq(live, 1, Min(Len(live), PageSize)),
        has_more |-> Len(live) > PageSize]

\* variant: the marker is spelt with a hyphen for the middle dot
ShouldArchiveHyphen(b) ==
    /\ b.hasType /\ b.type = "callout"
    /\ Includes(b.text, <<"A","U","T","O"," ","-"," ","R","e","s","u","m","e","n">>)

\* the test of the archive loop on one listed child
ShouldArchive(b) ==
    /\ b.hasType /\ b.type = "callout"
    /\ Includes(b.text, Marker)

\* index of the next listed child the loop archives, from index `from` on; 0 if none
NextArchive(children, from) ==
    IF \E k \in from..Len(children) : ShouldArchive(children[k])
    THEN CHOOSE k \in from..Len(children) :
            /\ ShouldArchive(children[k])
            /\ \A j \in from..(k - 1) : ~ShouldArchive(children[j])
    ELSE 0

\* properties?.X?.title?.[0]?.plain_text
TitleText(pv) ==
    IF pv.kind = "title" /\ Len(pv.title) > 0 THEN pv.title[1] ELSE Undefined

\* variant: Título || Name || 'Sin título'
DisplayNameTituloFirst(page) ==
    LET name == TitleText(page.props["Name"])
        titulo == TitleText(page.props["Título"])
    IN IF ~Falsy(titulo) THEN titulo
       ELSE IF ~Falsy(name) THEN name
       ELSE "Sin título"

\* Name || Título || 'Sin título'
DisplayName(page) ==
    LET name == TitleText(page.props["Name"])
        titulo == TitleText(page.props["Título"])
    IN IF ~Falsy(name) THEN name
       ELSE IF ~Falsy(titulo) THEN titulo
       ELSE "Sin título"

\* q.results.slice(0, 25).map(display name)
Bullets(q) == [k \in 1..Min(Len(q), BulletCap) |-> DisplayName(q[k])]

----------------------------------------------------------------------------
(* Handler invocations *)

\* handler instances: slot 1 runs an invocation; slot 2 runs one that
\* overlaps slot 1's
Procs == {1, 2}

NoFilter == [property |-> "", kind |-> "none", equals |-> JSUndef]
NoResult == [ok |-> FALSE, text |-> "", n |-> 0]
NoChildren == [results |-> <<>>, has_more |-> FALSE]

\* return { content: [{ type: 'text', text: `${text}:${n}` }] }
Returned(text, n) == [ok |-> TRUE, text |-> text, n |-> n]
\* a rejected call
Thrown(text) == [ok |-> FALSE, text |-> text, n |-> 0]

UnknownCollection == "DB no configurada"
StoreError == "StoreError"

Idle ==
    [op |-> "none", pc |-> "idle", db |-> "", uniqueProp |-> "",
     uniqueValue |-> JSUndef, properties |-> <<>>, sinceDays |-> 0,
     database_id |-> Undefined, filter |-> NoFilter, cutoff |-> 0,
     q |-> <<>>, children |-> NoChildren, i |-> 0, calloutId |-> 0,
     bullets |-> <<>>, calls |-> <<>>, overlapped |-> FALSE, pre |-> {},
     started |-> 0, gap |-> FALSE, result |-> NoResult]

Active(p) == inv[p].pc # "idle"

\* one store call as the invocation issued it
Call(name, arg, ok) == [call |-> name, arg |-> arg, ok |-> ok]

CanStart(p) ==
    /\ budget > 0
    /\ p \in slots
    /\ ~Active(p)
    /\ p = 2 => Active(1)

\* slot p enters an invocation: every invocation in flight now overlaps it
Enter(p, r) ==
    [o \in Procs |->
        IF o = p THEN [r EXCEPT !.overlapped = \E x \in Procs \ {p} : Active(x)]
        ELSE IF Active(o) THEN [inv[o] EXCEPT !.overlapped = TRUE]
        ELSE inv[o]]

\* slot p's invocation ends with result res: it joins the history
Finish(p, r, res) ==
    /\ hist' = Append(hist, [r EXCEPT !.pc = "done", !.result = res])
    /\ inv' = [inv EXCEPT ![p] = Idle]

Step(p, r) == inv' = [inv EXCEPT ![p] = r] /\ hist' = hist

\* a store call answers, or fails (network, auth, rate limit, validation)
Outcomes == IF faults > 0 THEN BOOLEAN ELSE {TRUE}

\* variant: a catch around the upsert query that carries on as if no record
\* matched
RejectedFallsToCreate(p, r) ==
    IF r.op = "upsert" /\ r.pc = "uQuery"
    THEN Step(p, [r EXCEPT !.pc = "uCreate"])
    ELSE Finish(p, r, Thrown(StoreError))

\* an awaited store call that rejects ends the handler with that error
Rejected(p, r) == Finish(p, r, Thrown(StoreError))

Logged(r, name, arg, ok) == [r EXCEPT !.calls = Append(@, Call(name, arg, ok))]

----------------------------------------------------------------------------
(* notion.upsert *)

\* lines 32-38: resolve the collection, build the filter
StartUpsert(p, db, uniqueProp, uniqueValue, properties) ==
    /\ CanStart(p)
    /\ budget' = budget - 1
    /\ LET database_id == DBSGet(db)
           r == [Idle EXCEPT !.op = "upsert", !.db = db,
                             !.uniqueProp = uniqueProp,
                             !.uniqueValue = uniqueValue,
                             !.properties = properties,
                             !.database_id = database_id,
                             !.pre = {records[k].id : k \in 1..Len(records)},
                             !.started = clock,
                             !.overlapped = \E x \in Procs \ {p} : Active(x)]
       IN IF Falsy(database_id)
          THEN Finish(p, r, Thrown(UnknownCollection))
          ELSE /\ inv' = Enter(p, [r EXCEPT !.pc = "uQuery",
                                   !.filter = BuildFilter(uniqueProp, uniqueValue)])
               /\ hist' = hist
    /\ UNCHANGED <<records, blocks, clock, nextId, load, slots, faults>>

\* variant: q.results[1]?.object === 'page'
FirstIsPageSecond(q) == Len(q) > 1 /\ q[2].object = "page"
\* variant: q.results[0]?.object === 'database'
FirstIsPageTypo(q) == Len(q) > 0 /\ q[1].object = "database"

\* line 41: q.results[0]?.object === 'page'
FirstIsPage(q) == Len(q) > 0 /\ q[1].object = "page"

\* variant: the update branch lacks its return
AfterUpdateFallsThrough == "fall through"

\* line 44: the update branch returns
AfterUpdate == "return"

\* variant: `updated:${created.id}`
CreatedTextAsUpdated(created) == Returned("updated", created.id)

\* line 47: `created:${created.id}`
CreatedText(created) == Returned("created", created.id)

\* line 40-41: the query, then the branch on its first result
UpsertQuery(p) ==
    /\ inv[p].pc = "uQuery"
    /\ \E ok \in Outcomes :
      /\ faults' = IF ok THEN faults ELSE faults - 1
      /\ LET r == inv[p]
            done == ok /\ r.database_id \in StoreDatabases
            q == QueryUnique(records, r.database_id, r.filter)
            r1 == Logged(r, "query", 0, done)
        IN IF done
           THEN Step(p, [r1 EXCEPT !.q = q,
                    !.pc = IF FirstIsPage(q) THEN "uUpdate" ELSE "uCreate"])
           ELSE Rejected(p, r1)
    /\ clock' = clock + 1
    /\ UNCHANGED <<records, blocks, nextId, budget, load, slots>>

\* variant: the id of the last result
UpdateTargetLast(q) == q[Len(q)].id

\* line 42: const id = q.results[0].id
UpdateTarget(q) == q[1].id

\* the store's pages.update({page_id, properties})
StoreUpdate(recs, id, properties, now) ==
    [k \in 1..Len(recs) |->
        IF recs[k].id = id
        THEN [recs[k] EXCEPT !.props = WriteProps(@, properties), !.edited = now]
        ELSE recs[k]]

\* lines 42-44
UpsertUpdate(p) ==
    /\ inv[p].pc = "uUpdate"
    /\ \E ok \in Outcomes :
      /\ faults' = IF ok THEN faults ELSE faults - 1
      /\ LET r == inv[p]
            id == UpdateTarget(r.q)
            r1 == Logged(r, "update", id, ok)
        IN IF ok
           THEN /\ records' = StoreUpdate(records, id, r.properties, clock)
                /\ IF AfterUpdate = "return"
                   THEN Finish(p, r1, Returned("updated", id))
                   ELSE Step(p, [r1 EXCEPT !.pc = "uCreate"])
           ELSE /\ records' = records
                /\ Rejected(p, r1)
    /\ clock' = clock + 1
    /\ UNCHANGED <<blocks, nextId, budget, load, slots>>

\* variant: a store that keeps one page per content and parent
StoreCreateIfAbsent(recs, created) ==
    IF \E k \in 1..Len(recs) :
            /\ recs[k].parent = created.parent /\ ~recs[k].archived
            /\ recs[k].props = created.props
    THEN recs
    ELSE Append(recs, created)

\* the store's pages.create({parent, properties}): always a new page
StoreCreate(recs, created) == Append(recs, created)

\* lines 46-47
UpsertCreate(p) ==
    /\ inv[p].pc = "uCreate"
    /\ \E ok \in Outcomes :
      /\ faults' = IF ok THEN faults ELSE faults - 1
      /\ LET r == inv[p]
            created == Page(nextId, r.database_id,
                            WriteProps(NoProps, r.properties), clock, FALSE)
            r1 == Logged(r, "create", IF ok THEN created.id ELSE 0, ok)
        IN IF ok
           THEN /\ records' = StoreCreate(records, created)
                /\ nextId' = nextId + 1
                /\ Finish(p, r1, CreatedText(created))
           ELSE /\ UNCHANGED <<records, nextId>>
                /\ Rejected(p, r1)
    /\ clock' = clock + 1
    /\ UNCHANGED <<blocks, budget, load, slots>>

----------------------------------------------------------------------------
(* notion.hub_summary_projects *)

\* lines 54-58: resolve the collection, compute the cutoff from Date.now()
StartSummary(p, sinceDays, db) ==
    /\ CanStart(p)
    /\ budget' = budget - 1
    /\ LET database_id == DBSGet(db)
           r == [Idle EXCEPT !.op = "summary", !.db = db,
                             !.sinceDays = sinceDays,
                             !.database_id = database_id,
                             !.pre = {records[k].id : k \in 1..Len(records)},
                             !.started = clock,
                             !.overlapped = \E x \in Procs \ {p} : Active(x)]
       IN IF Falsy(database_id)
          THEN Finish(p, r, Thrown(UnknownCollection))
          ELSE /\ inv' = Enter(p, [r EXCEPT !.pc = "sQuery",
                                   !.cutoff = clock - sinceDays * DayMs])
               /\ hist' = hist
    /\ UNCHANGED <<records, blocks, clock, nextId, load, slots, faults>>

\* lines 59-63
SummaryQuery(p) ==
    /\ inv[p].pc = "sQuery"
    /\ \E ok \in Outcomes :
      /\ faults' = IF ok THEN faults ELSE faults - 1
      /\ LET r == inv[p]
            done == ok /\ r.database_id \in StoreDatabases
            r1 == Logged(r, "query", 0, done)
        IN IF done
           THEN Step(p, [r1 EXCEPT !.pc = "sList",
                    !.q = QueryRecent(records, r.database_id, r.cutoff)])
           ELSE Rejected(p, r1)
    /\ clock' = clock + 1
    /\ UNCHANGED <<records, blocks, nextId, budget, load, slots>>

\* after the listing, or one archive call: on to the next child to archive,
\* or to the new callout
LoopFrom(r, from) ==
    LET k == NextArchive(r.children.results, from)
    IN [r EXCEPT !.i = k, !.pc = IF k > 0 THEN "sArchive" ELSE "sCallout"]

\* line 66, and the loop up to its first archive call
SummaryList(p) ==
    /\ inv[p].pc = "sList"
    /\ \E ok \in Outcomes :
      /\ faults' = IF ok THEN faults ELSE faults - 1
      /\ LET r1 == Logged(inv[p], "list", 0, ok)
        IN IF ok
           THEN Step(p, LoopFrom([r1 EXCEPT !.children = ListChildren(blocks)], 1))
           ELSE Rejected(p, r1)
    /\ clock' = clock + 1
    /\ UNCHANGED <<records, blocks, nextId, budget, load, slots>>

StartsWith(s, pre) == Len(s) >= Len(pre) /\ SubSeq(s, 1, Len(pre)) = pre

\* a marked callout: a callout whose leading text begins with the marker
IsMarkedCallout(b) ==
    b.hasType /\ b.type = "callout" /\ StartsWith(b.text, Marker)

\* no live marked callout is left among the hub's children
NoLiveMarked(blks) ==
    \A k \in 1..Len(blks) : IsMarkedCallout(blks[k]) => blks[k].archived

\* the store's blocks.update({block_id, archived: true})
StoreArchive(blks, id) ==
    [k \in 1..Len(blks) |->
        IF blks[k].id = id THEN [blks[k] EXCEPT !.archived = TRUE] ELSE blks[k]]

\* variant: a catch that archives the callout the invocation appended
CompensatedCallout(blks, r) ==
    IF r.calloutId = 0 THEN blks ELSE StoreArchive(blks, r.calloutId)

\* lines 66-103 hold no try/catch: a rejected call leaves the hub as the
\* earlier calls of the invocation made it
Uncompensated(blks, r) == blks

\* line 71, and the loop up to its next archive call
SummaryArchive(p) ==
    /\ inv[p].pc = "sArchive"
    /\ \E ok \in Outcomes :
      /\ faults' = IF ok THEN faults ELSE faults - 1
      /\ LET r == inv[p]
            id == r.children.results[r.i].id
            r1 == Logged(r, "archive", id, ok)
        IN IF ok
           THEN /\ blocks' = StoreArchive(blocks, id)
                /\ LET r2 == LoopFrom(r1, r.i + 1)
                   IN Step(p, [r2 EXCEPT !.gap = r2.pc = "sCallout"
                                   /\ NoLiveMarked(StoreArchive(blocks, id))])
           ELSE /\ blocks' = Uncompensated(blocks, r1)
                /\ Rejected(p, r1)
    /\ clock' = clock + 1
    /\ UNCHANGED <<records, nextId, budget, load, slots>>

\* variant: the records are queried again when the bullets are built
BulletSourceRequery(r, recs) == QueryRecent(recs, r.database_id, r.cutoff)

\* line 88: the bullets are built from q.results, the answer to line 59
BulletSource(r, recs) == r.q

\* lines 77-99: append the new callout, derive the bullets
SummaryCallout(p) ==
    /\ inv[p].pc = "sCallout"
    /\ \E ok \in Outcomes :
      /\ faults' = IF ok THEN faults ELSE faults - 1
      /\ LET r == inv[p]
            r1 == Logged(r, "append", 0, ok)
            bullets == Bullets(BulletSource(r, records))
            r2 == [r1 EXCEPT !.calloutId = nextId, !.bullets = bullets]
        IN IF ok
           THEN /\ blocks' = Append(blocks, Callout(nextId, Title(r.sinceDays)))
                /\ nextId' = nextId + 1
                /\ IF Len(bullets) > 0
                   THEN Step(p, [r2 EXCEPT !.pc = "sBullets"])
                   ELSE Finish(p, r2, Returned("hub-updated", Len(bullets)))
           ELSE /\ UNCHANGED <<blocks, nextId>>
                /\ Rejected(p, r1)
    /\ clock' = clock + 1
    /\ UNCHANGED <<records, budget, load, slots>>

\* the store's blocks.children.append({block_id, children})
StoreAppendKids(blks, id, kids) ==
    [k \in 1..Len(blks) |->
        IF blks[k].id = id THEN [blks[k] EXCEPT !.kids = @ \o kids] ELSE blks[k]]

BlockLive(blks, id) == \E k \in 1..Len(blks) : blks[k].id = id /\ ~blks[k].archived

\* variant: the bullets are appended to the hub page
BulletTargetHub(r) == 0

\* line 101: block_id: calloutId
BulletTarget(r) == r.calloutId

\* lines 100-103; the store rejects an append under an archived block
SummaryBullets(p) ==
    /\ inv[p].pc = "sBullets"
    /\ \E ok \in Outcomes :
      /\ faults' = IF ok THEN faults ELSE faults - 1
      /\ LET r == inv[p]
            done == ok /\ BlockLive(blocks, BulletTarget(r))
            r1 == Logged(r, "append", BulletTarget(r), done)
        IN IF done
           THEN /\ blocks' = StoreAppendKids(blocks, BulletTarget(r), r.bullets)
                /\ Finish(p, r1, Returned("hub-updated", Len(r.bullets)))
           ELSE /\ blocks' = Uncompensated(blocks, r1)
                /\ Rejected(p, r1)
    /\ clock' = clock + 1
    /\ UNCHANGED <<records, nextId, budget, load, slots>>

----------------------------------------------------------------------------
(* Inputs of the tool calls *)

Mail == <<"a","@","b">>
OtherMail == <<"c","@","d">>

DbInputs == {"seguimientos", "nada", "constructor"}
UniquePropInputs == {"Clave"}
SinceDaysInputs == {1, DefaultSinceDays}

UVCore == {JSStr(Mail), JSNum(7)}
UVShapes ==
    UVCore \cup
    { JSNum(10), JSStr(<<"7">>), JSStr(<<"a","b">>), JSStr(<<>>),
      JSStr(<<"a","@">>), JSStr(<<"@","b">>), JSStr(<<"@">>),
      JSStr(<<"a"," ","@","b">>), JSStr(<<"a","@"," ","b">>),
      JSStr(<<"x"," ","a","@","b"," ","y">>), JSStr(<<"a","@","@">>),
      JSBool(TRUE) }

EmptyProps == [n \in {} |-> NoVal]

PropertiesInputs ==
    { EmptyProps,
      "Clave" :> EmailVal(Mail),
      "Clave" :> EmailVal(OtherMail),
      "Clave" :> NumVal(7),
      "Name" :> TitleVal(<<"Nueva">>) }

UpsertCall(db, uniqueProp, uniqueValue, properties) ==
    [db |-> db, uniqueProp |-> uniqueProp, uniqueValue |-> uniqueValue,
     properties |-> properties]
SummaryCall(sinceDays, db) == [sinceDays |-> sinceDays, db |-> db]

\* the tool calls the clients of a run may send.  A call naming no collection
\* of the registry is tried with one choice of its other parameters.
UpsertCalls(values, props) ==
    { UpsertCall("seguimientos", u, v, pr) :
        u \in UniquePropInputs, v \in values, pr \in props }
    \cup { UpsertCall(db, "Clave", JSStr(Mail), EmptyProps) :
             db \in DbInputs \ DOMAIN DBS }

SummaryCalls ==
    { SummaryCall(d, "seguimientos") : d \in SinceDaysInputs }
    \cup { SummaryCall(DefaultSinceDays, db) : db \in DbInputs \ DOMAIN DBS }

LoadFull ==
    [upserts |-> UpsertCalls(UVCore, PropertiesInputs), summaries |-> SummaryCalls]
\* every shape of unique value
LoadShapes ==
    [upserts |-> UpsertCalls(UVShapes, {EmptyProps}),
     summaries |-> {SummaryCall(DefaultSinceDays, "seguimientos")}]
\* calls on one unique value and one window, for overlapping invocations
LoadRace ==
    [upserts |-> { UpsertCall("seguimientos", "Clave", JSStr(Mail), pr) :
                     pr \in {EmptyProps, "Clave" :> EmailVal(Mail)} },
     summaries |-> {SummaryCall(DefaultSinceDays, "seguimientos")}]
LoadBig ==
    [upserts |-> UpsertCalls({JSStr(Mail)},
                             {"Clave" :> EmailVal(Mail), "Name" :> TitleVal(<<"Nueva">>)}),
     summaries |-> SummaryCalls]

----------------------------------------------------------------------------
(* Initial stores *)

Clock0 == (DefaultSinceDays + 1) * DayMs

WithProps(clave, name, titulo) ==
    [n \in PropNames |->
        CASE n = "Clave" -> clave
          [] n = "Name" -> name
          [] OTHER -> titulo]

\* a store with duplicates of one unique value, an archived page, a page of
\* another collection, and every shape of display name
SmallRecords ==
    << Page(1, "db-seg", WithProps(EmailVal(Mail), TitleVal(<<"Vieja">>), NoVal),
            Clock0 - 100, TRUE),
       Page(2, "db-seg", WithProps(EmailVal(Mail), TitleVal(<<"Casa">>),
                                   TitleVal(<<"Hogar">>)), Clock0 - 1000, FALSE),
       Page(3, "db-seg", WithProps(EmailVal(Mail), NoVal, TitleVal(<<"Lote">>)),
            Clock0 - DayMs, FALSE),
       Page(4, "db-pro", WithProps(EmailVal(Mail), TitleVal(<<"Otro">>), NoVal),
            Clock0 - 500, FALSE),
       Page(5, "db-seg", WithProps(NoVal, NoVal, NoVal), Clock0 - 2 * DayMs, FALSE),
       Page(6, "db-seg", WithProps(TextVal(Mail), TitleVal(<<>>), TitleVal(<<"Solo">>)),
            Clock0 - 300, FALSE),
       Page(7, "db-seg", WithProps(NoVal, TitleVal(<<"">>), TitleVal(<<>>)),
            Clock0 - 200, FALSE),
       Page(8, "db-seg", WithProps(NoVal, TitleVal(<<"Ca", "sa">>), NoVal),
            Clock0 - 20 * DayMs, FALSE) >>

\* a hub with every kind of child the archive loop tells apart
SmallHub ==
    << Paragraph(101),
       Callout(102, Title(DefaultSinceDays)),
       Callout(103, <<"N","o","t","a",":"," ">> \o Marker),
       Callout(104, <<"N","o","t","a">>),
       Block(105, FALSE, "", <<>>, FALSE),
       Block(106, TRUE, "callout", Title(1), TRUE),
       Callout(107, <<>>),
       Block(108, TRUE, "paragraph", Marker, FALSE),
       Callout(109, Marker) >>

\* BigInside pages edited inside every window (later pages edited later),
\* then BigOutside pages edited before every window
BigRecords ==
    [k \in 1..(BigInside + BigOutside) |->
        Page(k, "db-seg",
             WithProps(NoVal, TitleVal(<<ToString(k)>>), NoVal),
             IF k <= BigInside THEN Clock0 - 1000 + k
             ELSE Clock0 - (DefaultSinceDays + 1) * DayMs + k,
             FALSE)]

\* n paragraphs
Fillers(n) == [k \in 1..n |-> Paragraph(1000 + k)]

\* the store gives a new page or block an id no page or block has
FreshId(recs, hub) ==
    LET ids == {recs[k].id : k \in 1..Len(recs)} \cup {hub[k].id : k \in 1..Len(hub)}
    IN IF ids = {} THEN 1 ELSE 1 + CHOOSE m \in ids : \A x \in ids : x <= m

InitWith(recs, hub, calls, sessions) ==
    /\ records = recs
    /\ blocks = hub
    /\ clock = Clock0
    /\ nextId = FreshId(recs, hub)
    /\ inv = [p \in Procs |-> Idle]
    /\ hist = <<>>
    /\ budget = MaxInv
    /\ load = calls
    /\ slots = sessions
    /\ faults = MaxFaults

\* a store whose only record of the unique value is archived
ArchivedOnly == <<SmallRecords[1]>>

Init ==
    \E s \in {<<<<>>, <<>>>>, <<ArchivedOnly, <<>>>>, <<SmallRecords, SmallHub>>} :
        InitWith(s[1], s[2], LoadFull, {1})

\* calls with every shape of unique value
InitShapes == InitWith(SmallRecords, SmallHub, LoadShapes, {1})

\* a large collection and a hub whose children fill the first page, called
\* by one session at a time
BigHubs ==
    { Fillers(PageSize - 1), Fillers(PageSize),
      SmallHub \o Fillers(PageSize - Len(SmallHub)),
      Fillers(PageSize) \o SmallHub }

InitBig == \E hub \in BigHubs : InitWith(BigRecords, hub, LoadBig, {1})

\* two sessions whose invocations overlap
InitRace ==
    \E s \in {<<<<>>, <<>>>>, <<SmallRecords, SmallHub>>} :
        InitWith(s[1], s[2], LoadRace, Procs)

Next ==
    \E p \in Procs :
        \/ \E c \in load.upserts :
                StartUpsert(p, c.db, c.uniqueProp, c.uniqueValue, c.properties)
        \/ UpsertQuery(p)
        \/ UpsertUpdate(p)
        \/ UpsertCreate(p)
        \/ \E c \in load.summaries : StartSummary(p, c.sinceDays, c.db)
        \/ SummaryQuery(p)
        \/ SummaryList(p)
        \/ SummaryArchive(p)
        \/ SummaryCallout(p)
        \/ SummaryBullets(p)

Spec == Init /\ [][Next]_vars
SpecShapes == InitShapes /\ [][Next]_vars
SpecBig == InitBig /\ [][Next]_vars
SpecRace == InitRace /\ [][Next]_vars

----------------------------------------------------------------------------
(* Properties *)

\* the invocations of the run: finished ones, then those in flight
Invocations ==
    {hist[k] : k \in 1..Len(hist)} \cup {inv[p] : p \in {x \in Procs : Active(x)}}

NumCalls(h, names) == Cardinality({k \in 1..Len(h.calls) : h.calls[k].call \in names})

CallArgs(h, name) == {h.calls[k].arg : k \in {j \in 1..Len(h.calls) : h.calls[j].call = name}}

AllIdle == \A p \in Procs : ~Active(p)


SameKey(a, b) ==
    /\ a.db = b.db /\ a.uniqueProp = b.uniqueProp /\ a.uniqueValue = b.uniqueValue

\* the whole run so far is upserts of one unique value, one after the other,
\* none of them failed
UpsertsInSequence ==
    /\ Len(hist) >= 1
    /\ \A k \in 1..Len(hist) :
        /\ hist[k].op = "upsert" /\ ~hist[k].overlapped /\ hist[k].result.ok
        /\ SameKey(hist[k], hist[1])

NumCreated == Cardinality({k \in 1..Len(hist) : hist[k].result.text = "created"})

\* C1: an invocation whose db is no key of the registry fails with the
\* unknown-collection error and has issued no store call
C1_UnknownDbFailsBeforeAnyStoreCall ==
    \A h \in Invocations :
        h.db \notin DOMAIN DBS =>
            /\ h.calls = <<>>
            /\ h.pc = "done" => h.result = Thrown(UnknownCollection)

\* C2 as stated: upserts of one unique value in strict sequence, whatever the
\* properties, create at most one record, and each one after the first
\* reports updated:<id> of the record the first created or found
C2_SequentialUpsertsCreateOnce ==
    UpsertsInSequence =>
        /\ NumCreated <= 1
        /\ \A k \in 2..Len(hist) : hist[k].result = Returned("updated", hist[1].result.n)

\* the properties assign uniqueProp the unique value, in the kind of the filter
WritesKey(h) ==
    /\ h.uniqueProp \in DOMAIN h.properties
    /\ h.properties[h.uniqueProp].kind = h.filter.kind
    /\ h.properties[h.uniqueProp].val = h.filter.equals

\* C2 amended: the same, for invocations whose properties assign uniqueProp
\* the unique value in the kind the filter infers
C2_SequentialUpsertsWritingKeyCreateOnce ==
    (UpsertsInSequence /\ \A k \in 1..Len(hist) : WritesKey(hist[k])) =>
        /\ NumCreated <= 1
        /\ \A k \in 2..Len(hist) : hist[k].result = Returned("updated", hist[1].result.n)

C2_Witness ==
    /\ UpsertsInSequence /\ Len(hist) >= 2
    /\ \A k \in 1..Len(hist) : WritesKey(hist[k])
    /\ hist[1].result.text = "created"
    /\ hist[2].result = Returned("updated", hist[1].result.n)

OneUpdateNoCreate(h) ==
    NumCalls(h, {"update"}) = 1 /\ NumCalls(h, {"create"}) = 0

\* C3 as stated: with a matching record present, two upserts of its unique
\* value in strict sequence each issue one update and no create, and both
\* report updated:<id> with the same id
C3_TwoUpsertsOnExistingUpdateSame ==
    (UpsertsInSequence /\ Len(hist) = 2 /\ hist[1].q # <<>>) =>
        /\ OneUpdateNoCreate(hist[1]) /\ OneUpdateNoCreate(hist[2])
        /\ hist[1].result.text = "updated"
        /\ hist[2].result = hist[1].result

\* the properties leave uniqueProp alone or assign it the unique value
KeepsKey(h) == h.uniqueProp \notin DOMAIN h.properties \/ WritesKey(h)

\* C3 amended: the same, when the first invocation's properties leave
\* uniqueProp equal to the unique value
C3_TwoUpsertsKeepingKeyUpdateSame ==
    (UpsertsInSequence /\ Len(hist) = 2 /\ hist[1].q # <<>> /\ KeepsKey(hist[1])) =>
        /\ OneUpdateNoCreate(hist[1]) /\ OneUpdateNoCreate(hist[2])
        /\ hist[1].result.text = "updated"
        /\ hist[2].result = hist[1].result

C3_Witness ==
    /\ UpsertsInSequence /\ Len(hist) = 2 /\ hist[1].q # <<>> /\ KeepsKey(hist[1])
    /\ hist[1].properties # hist[2].properties
    /\ hist[2].result = hist[1].result /\ hist[1].result.text = "updated"

QueryAnswered(h) == Len(h.calls) >= 1 /\ h.calls[1].call = "query" /\ h.calls[1].ok

RecordIds(db) ==
    {records[k].id : k \in {j \in 1..Len(records) : records[j].parent = db}}

\* C4: a finished upsert whose query found no match issued one create and no
\* update; if the create was answered it reports created:<id>, the id of a
\* record of the collection that did not exist before the call
C4_NoMatchCreatesFresh ==
    \A k \in 1..Len(hist) :
        LET h == hist[k] IN
        (h.op = "upsert" /\ QueryAnswered(h) /\ h.q = <<>>) =>
            /\ NumCalls(h, {"create"}) = 1 /\ NumCalls(h, {"update"}) = 0
            /\ h.result.ok =>
                /\ h.result.text = "created"
                /\ h.result.n \in RecordIds(h.database_id)
                /\ h.result.n \notin h.pre

C4_Witness ==
    \E k \in 1..Len(hist) :
        /\ hist[k].op = "upsert" /\ QueryAnswered(hist[k]) /\ hist[k].q = <<>>
        /\ hist[k].pre # {}
        /\ hist[k].result.ok /\ hist[k].result.text = "created"

Writes == {"create", "update"}

\* C5 as stated: every upsert invocation issues exactly one create-or-update
C5_EveryUpsertWritesOnce ==
    \A k \in 1..Len(hist) :
        hist[k].op = "upsert" => NumCalls(hist[k], Writes) = 1

\* C5 amended: an upsert invocation issues at most one create-or-update call,
\* and a finished one has issued exactly one if and only if its query was
\* answered (it resolved the collection and the query did not fail)
C5_UpsertWritesOnceAfterQuery ==
    /\ \A h \in Invocations : h.op = "upsert" => NumCalls(h, Writes) <= 1
    /\ \A k \in 1..Len(hist) :
        hist[k].op = "upsert" =>
            /\ QueryAnswered(hist[k]) <=> NumCalls(hist[k], Writes) = 1
            /\ hist[k].result.ok => NumCalls(hist[k], Writes) = 1

C5_Witness ==
    /\ Len(hist) = 2
    /\ hist[1].op = "upsert" /\ hist[1].result.text = "updated"
    /\ NumCalls(hist[1], Writes) = 1
    /\ hist[2].op = "upsert" /\ hist[2].result = Thrown(StoreError)
    /\ NumCalls(hist[2], Writes) = 0

\* some "@" of s stands between two non-space characters
AtBetweenNonSpaces(s) ==
    \E i \in 2..(Len(s) - 1) :
        s[i] = "@" /\ s[i - 1] \notin {" ", "\t", "\n"} /\ s[i + 1] \notin {" ", "\t", "\n"}

\* C6: the filter of an upsert is number-equality on the value for a number,
\* email-equality on its text for a value whose text holds an "@" between two
\* non-space characters, text-equality on its text for any other value
C6_FilterKindFollowsValueShape ==
    \A h \in Invocations :
        (h.op = "upsert" /\ h.db \in DOMAIN DBS) =>
            LET v == h.uniqueValue
                text == JSStr(JSString(v))
            IN /\ h.filter.property = h.uniqueProp
               /\ v.type = "number" =>
                    h.filter.kind = "number" /\ h.filter.equals = v
               /\ AtBetweenNonSpaces(JSString(v)) =>
                    h.filter.kind = "email" /\ h.filter.equals = text
               /\ (v.type # "number" /\ ~AtBetweenNonSpaces(JSString(v))) =>
                    h.filter.kind = "rich_text" /\ h.filter.equals = text

C6_Witness ==
    /\ Len(hist) = 2
    /\ hist[1].uniqueValue = JSStr(<<"x"," ","a","@","b"," ","y">>)
    /\ hist[1].filter.kind = "email"
    /\ hist[2].uniqueValue = JSStr(<<"a"," ","@","b">>)
    /\ hist[2].filter.kind = "rich_text"
    /\ hist[2].result.ok


LiveMarked == {k \in 1..Len(blocks) : IsMarkedCallout(blocks[k]) /\ ~blocks[k].archived}

HubBlock(id) == blocks[CHOOSE k \in 1..Len(blocks) : blocks[k].id = id]

\* the run so far is two answered summary rebuilds, one after the other
TwoRebuilds ==
    /\ Len(hist) = 2 /\ AllIdle
    /\ \A k \in 1..2 :
        hist[k].op = "summary" /\ hist[k].result.ok /\ ~hist[k].overlapped

\* C7 as stated: after two rebuilds in strict sequence the second has archived
\* the callout the first created and exactly one live marked callout exists
C7_SecondRebuildLeavesOneLive ==
    TwoRebuilds =>
        /\ hist[1].calloutId \in CallArgs(hist[2], "archive")
        /\ HubBlock(hist[1].calloutId).archived
        /\ Cardinality(LiveMarked) = 1

\* C7 amended: the same, when the second rebuild's listing held every live
\* child of the hub (at most 100 of them)
C7_SecondRebuildOfListedHubLeavesOneLive ==
    (TwoRebuilds /\ ~hist[2].children.has_more) =>
        /\ hist[1].calloutId \in CallArgs(hist[2], "archive")
        /\ HubBlock(hist[1].calloutId).archived
        /\ Cardinality(LiveMarked) = 1

C7_Witness ==
    /\ TwoRebuilds /\ ~hist[2].children.has_more
    /\ Len(hist[2].children.results) = PageSize
    /\ hist[2].children.results[PageSize].id = hist[1].calloutId
    /\ HubBlock(hist[1].calloutId).archived
    /\ LiveMarked = {Len(blocks)}

\* the run's last invocation is an answered rebuild and nothing ran since
LastIsRebuild ==
    /\ Len(hist) >= 1 /\ AllIdle
    /\ hist[Len(hist)].op = "summary" /\ hist[Len(hist)].result.ok
    /\ ~hist[Len(hist)].overlapped

\* live records of the collection modified within the window of rebuild h
InWindow(h) ==
    {k \in 1..Len(records) :
        /\ records[k].parent = h.database_id /\ ~records[k].archived
        /\ records[k].edited >= h.started - h.sinceDays * DayMs}

\* how many records of set M were modified after record k
Newer(M, k) == Cardinality({j \in M : records[j].edited > records[k].edited})

\* C8: a rebuild over n records within the window reports hub-updated:min(25,n)
\* and publishes min(25,n) bullets: the i-th bullet is the display name of the
\* record with i-1 records of the window modified after it
C8_RebuildPublishesTopRecent ==
    LastIsRebuild =>
        LET h == hist[Len(hist)]
            M == InWindow(h)
            m == IF Cardinality(M) < 25 THEN Cardinality(M) ELSE 25
            kids == HubBlock(h.calloutId).kids
        IN /\ h.result = Returned("hub-updated", m)
           /\ Len(kids) = m
           /\ \A k \in M : Newer(M, k) < m => kids[Newer(M, k) + 1] = DisplayName(records[k])

C8_Witness ==
    /\ LastIsRebuild
    /\ hist[Len(hist)].sinceDays = DefaultSinceDays
    /\ Cardinality(InWindow(hist[Len(hist)])) = BigInside
    /\ Len(records) = BigInside + BigOutside
    /\ hist[Len(hist)].result = Returned("hub-updated", 25)
    /\ HubBlock(hist[Len(hist)].calloutId).kids[1] = ToString(BigInside)
    /\ HubBlock(hist[Len(hist)].calloutId).kids[25] = ToString(BigInside - 24)

ArchiveLoopDone(h) == \E k \in 1..Len(h.calls) : h.calls[k].call = "append"

\* C9: a rebuild archives a listed child only if it is a callout whose leading
\* text starts with the marker, and once its loop is over it has archived
\* every such listed child
C9_ArchivesExactlyMarkedCallouts ==
    \A h \in Invocations :
        h.op = "summary" =>
            \A j \in 1..Len(h.children.results) :
                LET b == h.children.results[j] IN
                /\ b.id \in CallArgs(h, "archive") => IsMarkedCallout(b)
                /\ (ArchiveLoopDone(h) /\ IsMarkedCallout(b)) =>
                        b.id \in CallArgs(h, "archive")

\* the plain text of the first segment of a title property, "" if there is none
LeadingTitle(pv) == IF pv.kind = "title" /\ pv.title # <<>> THEN Head(pv.title) ELSE ""

\* C10: each bullet of a rebuild is the record's Name title text if that is
\* not empty, else its Título title text if that is not empty, else
\* "Sin título"; the bullets published under the callout are these
C10_BulletIsNameThenTituloThenPlaceholder ==
    \A h \in Invocations :
        (h.op = "summary" /\ h.calloutId # 0) =>
            /\ Len(h.bullets) <= Len(h.q)
            /\ \A i \in 1..Len(h.bullets) :
                LET name == LeadingTitle(h.q[i].props["Name"])
                    titulo == LeadingTitle(h.q[i].props["Título"])
                IN h.bullets[i] = IF name # "" THEN name
                                  ELSE IF titulo # "" THEN titulo
                                  ELSE "Sin título"
            /\ (h.pc = "done" /\ h.result.ok) => HubBlock(h.calloutId).kids = h.bullets

C10_Witness ==
    /\ Len(hist) = 1 /\ hist[1].op = "summary" /\ hist[1].result.ok
    /\ HubBlock(hist[1].calloutId).kids =
            <<"Sin título", "Solo", "Casa", "Lote", "Sin título">>

----------------------------------------------------------------------------
(* Overlapping invocations *)

\* ids of the live records of h's collection that match h's filter now
MatchingNow(h) ==
    LET q == QueryUnique(records, h.database_id, h.filter)
    IN {q[k].id : k \in 1..Len(q)}

\* an answered upsert whose query found no match
SawNoMatch(h) ==
    h.op = "upsert" /\ QueryAnswered(h) /\ h.q = <<>> /\ h.result.ok

\* C11: two upserts of one unique value whose queries both found no match
\* both create: they report created:<id> with different ids, both records
\* exist, and both match the unique value when the properties carry it
C11_BothSeeNoMatchBothCreate ==
    \A i, j \in 1..Len(hist) :
        (i < j /\ SameKey(hist[i], hist[j])
               /\ SawNoMatch(hist[i]) /\ SawNoMatch(hist[j])) =>
            /\ hist[i].result.text = "created" /\ hist[j].result.text = "created"
            /\ hist[i].result.n # hist[j].result.n
            /\ {hist[i].result.n, hist[j].result.n} \subseteq RecordIds(hist[i].database_id)
            /\ (WritesKey(hist[i]) /\ WritesKey(hist[j])) =>
                    {hist[i].result.n, hist[j].result.n} \subseteq MatchingNow(hist[i])

\* two overlapping upserts on a store without a match have left two live
\* records of the same unique value
C11_Witness ==
    /\ Len(hist) = 2 /\ AllIdle
    /\ hist[1].overlapped /\ hist[2].overlapped
    /\ SameKey(hist[1], hist[2])
    /\ SawNoMatch(hist[1]) /\ SawNoMatch(hist[2])
    /\ hist[1].pre = {} /\ hist[2].pre = {}
    /\ WritesKey(hist[1]) /\ WritesKey(hist[2])
    /\ Cardinality(MatchingNow(hist[1])) = 2
    /\ MatchingNow(hist[1]) = {hist[1].result.n, hist[2].result.n}

\* the run is two answered rebuilds whose store calls interleaved
TwoOverlappingRebuilds ==
    /\ Len(hist) = 2 /\ AllIdle
    /\ \A k \in 1..2 :
        hist[k].op = "summary" /\ hist[k].result.ok /\ hist[k].overlapped

\* C12: two overlapping rebuilds of a hub whose children fit one listing leave
\* one or two live marked callouts, never none; a rebuild notes a gap only
\* after an archive call of its own, when no live marked callout is left
C12_OverlappingRebuildsLeaveOneOrTwo ==
    /\ (TwoOverlappingRebuilds /\ \A k \in 1..2 : ~hist[k].children.has_more) =>
            Cardinality(LiveMarked) \in 1..2
    /\ \A h \in Invocations :
            h.gap => h.op = "summary" /\ CallArgs(h, "archive") # {}

\* both rebuilds listed the hub before either appended: one of them passed
\* through a hub without a live marked callout, and two are live at the end
C12_Witness ==
    /\ TwoOverlappingRebuilds
    /\ \E k \in 1..2 : hist[k].gap
    /\ Cardinality(LiveMarked) = 2
    /\ LiveMarked = {k \in 1..Len(blocks) :
                        blocks[k].id \in {hist[1].calloutId, hist[2].calloutId}}

----------------------------------------------------------------------------
(* Failed store calls *)

\* the blocks a successful archive call of h named
ArchivedBy(h) ==
    {h.calls[k].arg : k \in {j \in 1..Len(h.calls) :
                                h.calls[j].call = "archive" /\ h.calls[j].ok}}

\* rebuild h ended on a failed store call
FailedRebuild(h) ==
    /\ h.op = "summary" /\ h.pc = "done"
    /\ h.calls # <<>> /\ ~h.calls[Len(h.calls)].ok

\* C13: a rebuild ended by a failed store call is rejected with the store's
\* error and returns no status text; every block it archived is still
\* archived, and while nothing else has run since, the callout it appended is
\* still a live child of the hub, without bullets
C13_FailedRebuildKeepsItsMutations ==
    /\ \A h \in Invocations :
        h.op = "summary" =>
            /\ FailedRebuild(h) => h.result = Thrown(StoreError)
            /\ \A id \in ArchivedBy(h) : HubBlock(id).archived
            /\ h.calloutId # 0 => \E k \in 1..Len(blocks) : blocks[k].id = h.calloutId
    /\ (Len(hist) >= 1 /\ AllIdle /\ FailedRebuild(hist[Len(hist)])
            /\ ~hist[Len(hist)].overlapped /\ hist[Len(hist)].calloutId # 0) =>
            LET b == HubBlock(hist[Len(hist)].calloutId)
            IN ~b.archived /\ b.kids = <<>> /\ IsMarkedCallout(b)

\* the bullet append failed after two archive calls and the callout append:
\* the old callouts stay archived and the new one stays, empty
C13_Witness ==
    /\ Len(hist) = 1 /\ AllIdle /\ FailedRebuild(hist[1])
    /\ hist[1].result = Thrown(StoreError)
    /\ Cardinality(ArchivedBy(hist[1])) >= 2
    /\ hist[1].calloutId # 0
    /\ hist[1].calls[Len(hist[1].calls)] = Call("append", hist[1].calloutId, FALSE)
    /\ \A id \in ArchivedBy(hist[1]) : HubBlock(id).archived
    /\ ~HubBlock(hist[1].calloutId).archived
    /\ HubBlock(hist[1].calloutId).kids = <<>>

\* the positions of h's calls of one name and argument
CallsOf(h, name, arg) ==
    {k \in 1..Len(h.calls) : h.calls[k].call = name /\ h.calls[k].arg = arg}

\* C14: no invocation issues the same store call twice, a failed store call
\* is the invocation's last call and ends it with the store's error; a failed
\* upsert query is followed by no update or create, a failed update by no
\* create
C14_NoRetryNoCallAfterFailure ==
    \A h \in Invocations :
        /\ \A k \in 1..Len(h.calls) :
            /\ Cardinality(CallsOf(h, h.calls[k].call, h.calls[k].arg)) = 1
            /\ ~h.calls[k].ok =>
                /\ k = Len(h.calls)
                /\ h.pc = "done" /\ h.result = Thrown(StoreError)
        /\ NumCalls(h, {"query"}) <= 1 /\ NumCalls(h, {"list"}) <= 1
        /\ NumCalls(h, {"update"}) <= 1 /\ NumCalls(h, {"create"}) <= 1
        /\ NumCalls(h, {"append"}) <= 2
        /\ (h.op = "upsert" /\ ~QueryAnswered(h)) =>
                NumCalls(h, {"update", "create"}) = 0

\* an upsert whose update failed: no create follows, the error is its result
C14_Witness ==
    \E h \in Invocations :
        /\ h.op = "upsert" /\ h.pc = "done" /\ h.q # <<>>
        /\ h.calls = <<Call("query", 0, TRUE), Call("update", h.q[1].id, FALSE)>>
        /\ h.result = Thrown(StoreError)

\* the display names of the first BulletCap records of a query result
TopNames(q) == [k \in 1..Min(Len(q), BulletCap) |-> DisplayName(q[k])]

\* what the query of rebuild h would return from the records as they are now
QueryNow(h) == QueryRecent(records, h.database_id, h.cutoff)

\* C15: the bullets a rebuild builds and publishes are the display names of
\* the first 25 records of the result its own query returned, in that order,
\* whatever other invocations did to the records since that query
C15_BulletsFollowOwnQueryResult ==
    \A h \in Invocations :
        (h.op = "summary" /\ h.calloutId # 0) =>
            /\ h.bullets = TopNames(h.q)
            /\ (h.pc = "done" /\ h.result.ok) =>
                /\ HubBlock(h.calloutId).kids = TopNames(h.q)
                /\ h.result = Returned("hub-updated", Min(Len(h.q), BulletCap))

\* an upsert ran from start to end between a rebuild's query and its bullet
\* append and changed the order a query would return; the bullets published
\* follow the rebuild's own result
C15_Witness ==
    /\ Len(hist) = 2 /\ AllIdle
    /\ hist[1].op = "upsert" /\ hist[1].result.ok
    /\ hist[2].op = "summary" /\ hist[2].result.ok
    /\ hist[1].started > hist[2].started
    /\ Len(hist[2].q) >= 2
    /\ HubBlock(hist[2].calloutId).kids = TopNames(hist[2].q)
    /\ TopNames(QueryNow(hist[2])) # TopNames(hist[2].q)

----------------------------------------------------------------------------
(* Order of the store calls *)

\* the place of a store call in the handler's text
Rank(c) ==
    CASE c.call = "query" -> 1
      [] c.call = "list" -> 2
      [] c.call = "archive" -> 3
      [] c.call = "append" /\ c.arg = 0 -> 4
      [] c.call = "append" /\ c.arg # 0 -> 5
      [] c.call \in {"update", "create"} -> 2

\* the calls an operation may issue
CallsFor(op) ==
    IF op = "upsert" THEN {"query", "update", "create"}
    ELSE {"query", "list", "archive", "append"}

\* C16: the store calls of one invocation are issued one after the other, each
\* after the one before it was answered: a rebuild issues its query, then the
\* listing, then the archive calls, then the callout append, then the bullet
\* append; an upsert issues its query, then one update or one create
C16_StoreCallsInFixedOrder ==
    \A h \in Invocations :
        /\ \A k \in 1..Len(h.calls) : h.calls[k].call \in CallsFor(h.op)
        /\ \A k \in 1..(Len(h.calls) - 1) :
            /\ h.calls[k].ok
            /\ Rank(h.calls[k]) <= Rank(h.calls[k + 1])
            /\ Rank(h.calls[k]) = Rank(h.calls[k + 1]) => h.calls[k].call = "archive"
        /\ h.calls # <<>> => h.calls[1].call = "query"
        /\ (h.op = "summary" /\ Len(h.calls) >= 2) => h.calls[2].call = "list"
        /\ h.op = "upsert" => Len(h.calls) <= 2

\* a rebuild that issued all of its kinds of call, in order
C16_Witness ==
    \E k \in 1..Len(hist) :
        LET c == hist[k].calls IN
        /\ hist[k].op = "summary" /\ hist[k].result.ok
        /\ Len(c) = 6
        /\ c[1].call = "query" /\ c[2].call = "list"
        /\ c[3].call = "archive" /\ c[4].call = "archive"
        /\ c[5] = Call("append", 0, TRUE)
        /\ c[6] = Call("append", hist[k].calloutId, TRUE)

----------------------------------------------------------------------------
(* The record an upsert writes *)

\* the records of h's collection that carry h's unique value, archived or not
CarriesKey(h) ==
    {k \in 1..Len(records) :
        records[k].parent = h.database_id /\ FilterMatches(records[k], h.filter)}

Changed == {k \in 1..Len(records) : records'[k] # records[k]}

\* C18: no step of the system removes, archives or re-parents a record; a step
\* changes at most one record, and only as the update of the first query
\* result of an upsert in that record's collection; a step adds at most one
\* record, by the create of an upsert; no upsert issues more than one write
C18_UpsertTouchesOneRecord ==
    [][ /\ Len(records') \in {Len(records), Len(records) + 1}
        /\ \A k \in 1..Len(records) :
            /\ records'[k].id = records[k].id
            /\ records'[k].parent = records[k].parent
            /\ records'[k].archived = records[k].archived
        /\ Cardinality(Changed) <= 1
        /\ \A k \in Changed :
            /\ Len(records') = Len(records)
            /\ \E p \in Procs :
                /\ inv[p].op = "upsert" /\ inv[p].pc = "uUpdate"
                /\ inv[p].q # <<>> /\ inv[p].q[1].id = records[k].id
                /\ inv[p].database_id = records[k].parent
        /\ Len(records') > Len(records) =>
            \E p \in Procs :
                /\ inv[p].op = "upsert" /\ inv[p].pc = "uCreate"
                /\ records'[Len(records')].parent = inv[p].database_id
        /\ \A h \in Invocations :
            h.op = "upsert" => NumCalls(h, {"update", "create"}) <= 1
      ]_vars

\* several live records match; the upsert updated the first of them and every
\* other record is as it was
C18_Witness ==
    /\ Len(hist) = 1 /\ AllIdle
    /\ hist[1].op = "upsert" /\ hist[1].result.text = "updated"
    /\ Len(hist[1].q) >= 2
    /\ hist[1].result.n = hist[1].q[1].id
    /\ Len(records) = Len(SmallRecords)
    /\ \A k \in 1..Len(records) :
        IF records[k].id = hist[1].result.n
        THEN records[k] # SmallRecords[k]
        ELSE records[k] = SmallRecords[k]

----------------------------------------------------------------------------
(* The listing's single page *)

\* the children of the hub that were live when rebuild h listed it, h being
\* the last invocation of a run of one session
LiveAtListing(h) ==
    {k \in 1..Len(blocks) :
        /\ blocks[k].id # h.calloutId
        /\ ~blocks[k].archived \/ blocks[k].id \in ArchivedBy(h)}

\* the place of child k among them
PlaceAtListing(h, k) == Cardinality({j \in LiveAtListing(h) : j <= k})

ListedIds(h) == {h.children.results[j].id : j \in 1..Len(h.children.results)}

\* C19: a rebuild lists at most 100 children, the first 100 live ones; a child
\* placed after them is not listed, not archived and, marked or not, as live
\* after the rebuild as before, next to the rebuild's new callout
C19_ChildrenBeyondFirstPageUntouched ==
    LastIsRebuild =>
        LET h == hist[Len(hist)] IN
        /\ Len(h.children.results) <= PageSize
        /\ ~HubBlock(h.calloutId).archived
        /\ \A k \in LiveAtListing(h) :
            IF PlaceAtListing(h, k) <= PageSize
            THEN blocks[k].id \in ListedIds(h)
            ELSE /\ blocks[k].id \notin ListedIds(h)
                 /\ blocks[k].id \notin CallArgs(h, "archive")
                 /\ ~blocks[k].archived

\* a marked callout placed after the hub's first 100 children is live after
\* the rebuild, as is the new callout
C19_Witness ==
    /\ LastIsRebuild /\ Len(hist) = 1
    /\ hist[1].children.has_more
    /\ \E k \in LiveMarked :
        /\ PlaceAtListing(hist[1], k) > PageSize
        /\ blocks[k].id \notin ListedIds(hist[1])
        /\ blocks[k].id # hist[1].calloutId
    /\ \E k \in LiveMarked : blocks[k].id = hist[1].calloutId
    /\ Cardinality(LiveMarked) >= 3

----------------------------------------------------------------------------
(* The target of the bullet append *)

\* the step is the bullet append of the invocation in slot p
AppendsBullets(p) == inv[p].pc = "sBullets" /\ inv'[p].pc # "sBullets"

\* the call that step issued
BulletCall == hist'[Len(hist')].calls[Len(hist'[Len(hist')].calls)]

\* C20 as stated: every bullet append goes to the callout the same invocation
\* appended, that callout is live when the append is issued, whatever other
\* rebuilds do, and no rebuild archives the callout it appended
C20_BulletTargetIsOwnLiveCallout ==
    [][ /\ \A p \in Procs :
            AppendsBullets(p) =>
                /\ BulletCall.call = "append" /\ BulletCall.arg = inv[p].calloutId
                /\ BlockLive(blocks, inv[p].calloutId)
        /\ \A h \in Invocations : h.calloutId \notin CallArgs(h, "archive")
      ]_vars

\* C20 amended: every bullet append goes to the callout the same invocation
\* appended, and no rebuild archives the callout it appended; that callout is
\* live when the append is issued unless another rebuild, overlapping this
\* one, has archived it since it was appended
C20_BulletTargetIsOwnCalloutLiveUnlessRaced ==
    [][ /\ \A p \in Procs :
            AppendsBullets(p) =>
                /\ inv[p].calloutId # 0
                /\ BulletCall.call = "append" /\ BulletCall.arg = inv[p].calloutId
                /\ \/ BlockLive(blocks, inv[p].calloutId)
                   \/ /\ inv[p].overlapped
                      /\ \E h \in Invocations \ {inv[p]} :
                            /\ h.op = "summary" /\ h.overlapped
                            /\ inv[p].calloutId \in ArchivedBy(h)
        /\ \A h \in Invocations : h.calloutId \notin CallArgs(h, "archive")
      ]_vars

\* two overlapping rebuilds have each appended their bullets to their own
\* callout, and both callouts are live
C20_Witness ==
    /\ TwoOverlappingRebuilds
    /\ hist[1].calloutId # hist[2].calloutId
    /\ \A k \in 1..2 :
        /\ hist[k].bullets # <<>>
        /\ hist[k].calls[Len(hist[k].calls)] = Call("append", hist[k].calloutId, TRUE)
        /\ ~HubBlock(hist[k].calloutId).archived
        /\ HubBlock(hist[k].calloutId).kids = hist[k].bullets

====
